---- MODULE Spec2Model ----
(***************************************************************************)
(* node-persist storage engine (LocalStorage): one file per key, named by  *)
(* the md5 of the key, holding the JSON text of {key, value, ttl}.         *)
(*                                                                         *)
(* The repository holds three implementations of LocalStorage:             *)
(*   "promises"  src/unnamed/part_000            (fs/promises, prototype)  *)
(*   "class"     src/src/local-storage.js:44-326 (fs/promises, class)      *)
(*   "callbacks" src/src/local-storage.js:397-746 (fs callbacks)           *)
(* The variable impl says which one a behaviour runs.                      *)
(*                                                                         *)
(* Every public call is a task: the action named after the method runs the *)
(* synchronous code up to the first filesystem call; each filesystem call  *)
(* is one step action that performs the call and runs the code after it up *)
(* to the next filesystem call or to the end of the method.  Tasks         *)
(* interleave at the filesystem calls, as promises do on one event loop.   *)
(*                                                                         *)
(* Encoding of JavaScript values: undefined/absent ttl is NoTTL (0, which  *)
(* JavaScript treats as falsy too), undefined value is NoValue, undefined  *)
(* key is UndefKey; a datum is a record with a flag def (FALSE: the        *)
(* JavaScript value undefined).                                            *)
(***************************************************************************)
EXTENDS Integers, Sequences, FiniteSets, TLC

\* ------------------------------------------------------------ bounds
MaxCalls == 2        \* foreground calls per behaviour
MaxTicks == 1        \* clock advances per behaviour
MaxSweeps == 2       \* ticks of the interval timer per behaviour
StartTime == 1000000000  \* the clock (epoch ms) at the start; any real clock is past defaultTTL
Step == 15           \* ms per clock advance
ShortTTL == 10       \* a ttl duration (ms) given to setItem / updateItem
OptionTTL == 20      \* a default ttl duration (ms) given as options.ttl

\* ------------------------------------------------------------ constants
defaultTTL == 24 * 60 * 60 * 1000

Impls == {"promises", "class", "callbacks"}
Tasks == {1, 2}
Keys == {"", "a", "b"}
UndefKey == "<undefined>"
NoTTL == 0
NoValue == 0
\* The value of the records an earlier run of the program left on disk.
OldValue == MaxCalls + 1
\* The keys at whose location another program writes.
CorruptibleKeys == {"a"}

\* md5 hex digest of the key, as a table over Keys.
md5(key) ==
  CASE key = ""  -> "d41d8cd98f00b204e9800998ecf8427e"
    [] key = "a" -> "0cc175b9c0f1b6a831c399e269772661"
    [] key = "b" -> "92eb5ffee6ae2fec3ad71c777531578f"

\* A file of the storage directory that is no record: its name starts with '.'.
HiddenFile == ".hidden"
hidden(currentFile) == currentFile = HiddenFile
FileNames == {md5(k) : k \in Keys} \cup {HiddenFile}
\* The order readdir lists the directory in.
DirOrder == <<HiddenFile, md5("a"), md5("b"), md5("")>>

\* ------------------------------------------------------------ JS values
Datum(key, value, ttl) == [def |-> TRUE, key |-> key, value |-> value, ttl |-> ttl]
Undefined == [def |-> FALSE, key |-> UndefKey, value |-> NoValue, ttl |-> NoTTL]
EmptyObject == Datum(UndefKey, NoValue, NoTTL)

\* File texts.  stringify leaves out the properties that are undefined.
NoFile == [kind |-> "nofile", fields |-> {}, key |-> UndefKey, value |-> NoValue, ttl |-> NoTTL]
Garbage == [kind |-> "garbage", fields |-> {}, key |-> UndefKey, value |-> NoValue, ttl |-> NoTTL]

stringify(obj) ==
  LET fields == (IF obj.key # UndefKey THEN {"key"} ELSE {})
                \cup (IF obj.value # NoValue THEN {"value"} ELSE {})
                \cup (IF obj.ttl # NoTTL THEN {"ttl"} ELSE {})
  IN [kind |-> "json", fields |-> fields,
      key |-> obj.key, value |-> obj.value, ttl |-> obj.ttl]

\* parse returns undefined when the codec throws.
\* A faulty parse that loses the ttl: C18_InspectionReads must not survive it.
parse_noTtl(text) ==
  IF text.kind # "json" THEN Undefined ELSE Datum(text.key, text.value, NoTTL)

parse(text) ==
  IF text.kind # "json" THEN Undefined
  ELSE Datum(IF "key" \in text.fields THEN text.key ELSE UndefKey,
             IF "value" \in text.fields THEN text.value ELSE NoValue,
             IF "ttl" \in text.fields THEN text.ttl ELSE NoTTL)

EmptyText == stringify(EmptyObject)

isValidStorageFileContent(content) ==
  content.def /\ content.key # UndefKey /\ content.key # ""

\* A faulty isExpired, the comparison reversed: C2_TTLExpiry must not survive it.
isExpired_flipped(datum, clock) ==
  datum.def /\ datum.ttl # NoTTL /\ datum.ttl > clock

isExpired(datum, clock) ==
  datum.def /\ datum.ttl # NoTTL /\ datum.ttl < clock

\* ------------------------------------------------------------ ttl arguments
\* options.ttl of setItem / updateItem: omitted, null, a number, a Date.
TtlUndefined == [t |-> "undefined", n |-> 0]
TtlNull == [t |-> "null", n |-> 0]
TtlNumber(n) == [t |-> "number", n |-> n]
TtlDate(ts) == [t |-> "date", n |-> ts]

TtlArgs == {TtlUndefined, TtlNull, TtlNumber(ShortTTL), TtlNumber(-ShortTTL),
            TtlDate(StartTime + 2 * Step + ShortTTL), TtlDate(StartTime - ShortTTL)}
\* What the inserts of a store left to its sweeper pass: no ttl, or a short one.
InsertTtlArgs == {TtlUndefined, TtlNumber(ShortTTL)}
\* The ttl arguments updateItem is called with.
UpdateTtlArgs == {TtlUndefined, TtlNull, TtlNumber(ShortTTL)}

truthy(ttl) ==
  CASE ttl.t = "undefined" -> FALSE
    [] ttl.t = "null" -> FALSE
    [] ttl.t = "number" -> ttl.n # 0
    [] ttl.t = "date" -> TRUE

isFutureDate(ttl, clock) == ttl.t = "date" /\ ttl.n > clock

\* A faulty calcTTL that stores the duration, not clock + duration:
\* C13_ValidTtl must not survive it.
calcTTL_duration(ttlArg, optionsTtl, nowts) ==
  CASE ttlArg.t = "undefined" -> optionsTtl
    [] ttlArg.t = "null" -> NoTTL
    [] OTHER -> ttlArg.n

calcTTL(ttlArg, optionsTtl, nowts) ==
  LET ttl == IF ttlArg.t = "undefined"
             THEN (IF optionsTtl = 0 THEN TtlNull ELSE TtlNumber(optionsTtl))
             ELSE ttlArg
  IN IF truthy(ttl)
     THEN IF ttl.t = "date"
          THEN (IF ~isFutureDate(ttl, nowts) THEN defaultTTL ELSE ttl.n)
          ELSE (IF ttl.n > 0 THEN nowts + ttl.n ELSE defaultTTL)
     ELSE NoTTL

\* ------------------------------------------------------------ options
\* A path is the sequence of its segments; an absolute path starts with "/".
isAbsolute(path) == path # <<>> /\ Head(path) = "/"

\* The working directories of the process.
Cwds == {<<"/", "home">>, <<"/", "tmp">>}

CwdAtStart == <<"/", "home">>

\* resolveDir(dir), wd being process.cwd().
resolveDir(path, wd) == IF isAbsolute(path) THEN path ELSE wd \o path

defaults == [ttl |-> 0, expiredInterval |-> 2 * 60 * 1000, forgiveParseErrors |-> FALSE,
             dir |-> <<".node-persist/storage">>]

\* The options argument of the constructor and of init: the properties it has
\* (has) and their values.  ttl: 0 is false, a negative number stands for a truthy
\* value that is no positive number.
NoOptions == [given |-> FALSE, has |-> {}, ttl |-> 0, expiredInterval |-> 0,
              forgiveParseErrors |-> FALSE, dir |-> <<>>]
UserOption(has, ttl, expiredInterval, forgive) ==
  [given |-> TRUE, has |-> has, ttl |-> ttl, expiredInterval |-> expiredInterval,
   forgiveParseErrors |-> forgive, dir |-> <<>>]
\* The options {dir: path}.
UserDir(path) == [UserOption({"dir"}, 0, 0, FALSE) EXCEPT !.dir = path]
DirOptions == {NoOptions, UserOption({"ttl"}, OptionTTL, 0, FALSE),
               UserDir(<<"data">>), UserDir(<<"/", "srv", "data">>)}
UserOptions ==
  { NoOptions,
    UserOption({"expiredInterval"}, 0, 0, FALSE),
    UserOption({"expiredInterval"}, 0, defaults.expiredInterval, FALSE),
    UserOption({"forgiveParseErrors"}, 0, 0, TRUE),
    UserOption({"ttl"}, OptionTTL, 0, FALSE),
    UserOption({"ttl"}, -OptionTTL, 0, FALSE) }

\* setOptions, given the current this.options (prev) or none (hasPrev FALSE), wd
\* being process.cwd().  Without userOptions this.options is the defaults
\* object itself, its dir as written there.
setOptions(userOptions, hasPrev, prev, wd) ==
  IF ~userOptions.given THEN defaults
  ELSE LET pick(name) == IF name \in userOptions.has THEN userOptions[name]
                         ELSE IF hasPrev THEN prev[name] ELSE defaults[name]
           ttl == pick("ttl")
       IN [ttl |-> IF ttl # 0 THEN (IF ttl > 0 THEN ttl ELSE defaultTTL) ELSE 0,
           expiredInterval |-> pick("expiredInterval"),
           forgiveParseErrors |-> pick("forgiveParseErrors"),
           dir |-> resolveDir(pick("dir"), wd)]

\* ------------------------------------------------------------ state
VARIABLES
  impl,      \* which implementation runs
  options,   \* this.options
  dir,       \* the storage directory: "absent" or "present"
  files,     \* the directory's content: file name -> text, or NoFile
  now,       \* the clock (epoch ms)
  tasks,     \* the calls in flight
  timers,    \* the number of active interval timers
  handle,    \* whether this._expiredKeysInterval is an active timer
  lastOp,    \* history: per key, the setItem or removeItem that completed last, alone,
             \* with no writing call on the key since
  calls,     \* history: foreground calls made
  sweeps,    \* history: ticks of the interval timer
  cwd,       \* process.cwd()
  configured \* history: the directory option, resolved against the working
             \* directory of the moment it was configured

vars == <<impl, options, dir, files, now, tasks, timers, handle, lastOp, calls, sweeps,
          cwd, configured>>

NoFiles == [f \in FileNames |-> NoFile]
NoHistory == [op |-> "none", value |-> NoValue, ttl |-> NoTTL]
Idle == [op |-> "idle", bg |-> FALSE, key |-> "", value |-> NoValue, ttlArg |-> TtlUndefined,
         pc |-> "idle", datum |-> Undefined, list |-> <<>>, data |-> <<>>, keys |-> <<>>,
         ok |-> TRUE, err |-> "", retValue |-> NoValue, existed |-> FALSE, removed |-> FALSE,
         mates |-> "none", after |-> NoHistory, t0 |-> 0, tchk |-> 0, pre |-> NoFiles,
         raw |-> NoFile, fault |-> FALSE]

Running(u) == tasks[u].pc \notin {"idle", "done"}
\* A settled call's result is taken by its caller before anything else runs.
Settled == \E u \in Tasks : tasks[u].pc = "done"
\* A call takes the first free slot of the task table.
Free(t) == ~Settled /\ tasks[t].pc = "idle" /\ \A u \in Tasks : u < t => tasks[u].pc # "idle"
\* Task t is at the filesystem call pc.
At(t, pc) == ~Settled /\ tasks[t].pc = pc

\* History kept in a task: mates says what ran while the call did ("none",
\* "sweeps": only other removeExpiredItems runs, "other"), after is lastOp of its
\* key when it started, t0 the clock and pre the directory's content then, tchk
\* the clock when it tested isExpired.
Solo(tk) == tk.mates = "none"
Overlap(a, b) == IF a.op = "removeExpiredItems" /\ b.op = "removeExpiredItems"
                 THEN "sweeps" ELSE "other"
Worse(m, n) == IF "other" \in {m, n} THEN "other"
               ELSE IF "sweeps" \in {m, n} THEN "sweeps" ELSE "none"

\* The task table after task t starts as rec: overlapping calls are marked.
Begin(t, rec) ==
  [u \in Tasks |->
     IF u = t
     THEN [rec EXCEPT !.mates = IF \E w \in Tasks \ {t} : Running(w)
                                THEN (IF \A w \in Tasks \ {t} :
                                           Running(w) => /\ Overlap(rec, tasks[w]) = "sweeps"
                                                         /\ tasks[w].mates # "other"
                                      THEN "sweeps" ELSE "other")
                                ELSE "none",
                      !.after = lastOp[rec.key], !.t0 = now, !.pre = files]
     ELSE IF Running(u) THEN [tasks[u] EXCEPT !.mates = Worse(@, Overlap(rec, tasks[u]))]
     ELSE tasks[u]]

Call(op, key, value, ttlArg, pc) ==
  [Idle EXCEPT !.op = op, !.key = key, !.value = value, !.ttlArg = ttlArg, !.pc = pc]

Done(tk, retValue) == [tk EXCEPT !.pc = "done", !.ok = TRUE, !.retValue = retValue]
Failed(tk, err) == [tk EXCEPT !.pc = "done", !.ok = FALSE, !.err = err]

\* The first filesystem call of deleteFile and of writeFile.
DeletePc == IF impl = "callbacks" THEN "existsFile" ELSE "unlink"
WritePc == IF impl = "class" THEN "mkdir" ELSE "write"

\* ------------------------------------------------------------ filesystem
\* fs readFile: the text, or NoFile for ENOENT.
fsRead(f) == IF dir = "present" THEN files[f] ELSE NoFile

\* A faulty readFile that throws on a missing file: C9_OverlappingSweeps must not survive it.
readFile_enoentThrown(text, forgive) ==
  IF text = NoFile THEN [ok |-> FALSE, datum |-> Undefined]
  ELSE LET data == parse(text)
       IN IF ~isValidStorageFileContent(data)
          THEN (IF forgive THEN [ok |-> TRUE, datum |-> EmptyObject]
                ELSE [ok |-> FALSE, datum |-> Undefined])
          ELSE [ok |-> TRUE, datum |-> data]

\* readFile without raw, from what fs readFile gave: [ok, datum].
readFile(text, forgive) ==
  IF text = NoFile THEN [ok |-> TRUE, datum |-> EmptyObject]
  ELSE LET data == parse(text)
           reject == IF impl = "class"
                     THEN data.def /\ data.key # UndefKey /\ data.key # ""
                     ELSE ~isValidStorageFileContent(data)
       IN IF reject
          THEN (IF forgive THEN [ok |-> TRUE, datum |-> EmptyObject]
                ELSE [ok |-> FALSE, datum |-> Undefined])
          ELSE [ok |-> TRUE, datum |-> data]

\* startExpiredKeysInterval: stopExpiredKeysInterval, then setInterval.
stopExpiredKeysInterval(n, h) == IF h THEN n - 1 ELSE n
startExpiredKeysInterval(n, h) == stopExpiredKeysInterval(n, h) + 1

\* The end of init: the sweeper is started when expiredInterval is truthy.
InitTail(t, tk) ==
  /\ tasks' = [tasks EXCEPT ![t] = Done(tk, NoValue)]
  /\ IF options.expiredInterval # 0
     THEN timers' = startExpiredKeysInterval(timers, handle) /\ handle' = TRUE
     ELSE UNCHANGED <<timers, handle>>

\* A call on key k starts: the history of k's last setItem ends, unless the call
\* only reads.
Forget(ks) == [k \in Keys |-> IF k \in ks THEN NoHistory ELSE lastOp[k]]

\* ------------------------------------------------------------ calls
init(t, userOptions) ==
  /\ Free(t) /\ calls < MaxCalls
  /\ calls' = calls + 1
  /\ configured' = IF userOptions.given
                   THEN resolveDir(IF "dir" \in userOptions.has THEN userOptions.dir
                                   ELSE options.dir, cwd)
                   ELSE configured
  /\ LET opts == IF userOptions.given THEN setOptions(userOptions, TRUE, options, cwd)
                 ELSE options
         tk == Call("init", "", NoValue, TtlUndefined,
                    CASE impl = "promises" -> "mkdirp"
                      [] impl = "callbacks" -> "existsDir"
                      [] impl = "class" -> "done")
     IN /\ options' = opts
        /\ tasks' = Begin(t, tk)
        /\ IF impl = "class" /\ opts.expiredInterval # 0
           THEN timers' = startExpiredKeysInterval(timers, handle) /\ handle' = TRUE
           ELSE UNCHANGED <<timers, handle>>
  /\ UNCHANGED <<impl, cwd, dir, files, now, lastOp, sweeps>>

setItem(t, key, value, ttlArg) ==
  /\ Free(t) /\ calls < MaxCalls
  /\ calls' = calls + 1
  /\ LET ttl == calcTTL(ttlArg, options.ttl, now)
         tk == [Call("setItem", key, value, ttlArg, WritePc)
                  EXCEPT !.datum = Datum(key, value, ttl)]
     IN tasks' = Begin(t, tk)
  /\ lastOp' = Forget({key})
  /\ UNCHANGED <<impl, cwd, configured, options, dir, files, now, timers, handle, sweeps>>

updateItem(t, key, value, ttlArg) ==
  /\ Free(t) /\ calls < MaxCalls
  /\ calls' = calls + 1
  /\ tasks' = Begin(t, Call("updateItem", key, value, ttlArg, "read"))
  /\ lastOp' = Forget({key})
  /\ UNCHANGED <<impl, cwd, configured, options, dir, files, now, timers, handle, sweeps>>

getItem(t, key) ==
  /\ Free(t) /\ calls < MaxCalls
  /\ calls' = calls + 1
  /\ tasks' = Begin(t, Call("getItem", key, NoValue, TtlUndefined, "read"))
  /\ UNCHANGED <<impl, cwd, configured, options, dir, files, now, timers, handle, lastOp, sweeps>>

getDatum(t, key) ==
  /\ Free(t) /\ calls < MaxCalls
  /\ calls' = calls + 1
  /\ tasks' = Begin(t, Call("getDatum", key, NoValue, TtlUndefined, "read"))
  /\ UNCHANGED <<impl, cwd, configured, options, dir, files, now, timers, handle, lastOp, sweeps>>

removeItem(t, key) ==
  /\ Free(t) /\ calls < MaxCalls
  /\ calls' = calls + 1
  /\ tasks' = Begin(t, Call("removeItem", key, NoValue, TtlUndefined, DeletePc))
  /\ lastOp' = Forget({key})
  /\ UNCHANGED <<impl, cwd, configured, options, dir, files, now, timers, handle, sweeps>>

\* A faulty raw readFile with no "{}" for a missing file:
\* C15_MissingFile must not survive it.
readFileRaw_noDefault(text) == text

\* readFile with {raw: true}: the text as it is, "{}" for a missing file.
readFileRaw(text) == IF text = NoFile THEN EmptyText ELSE text

getRawDatum(t, key) ==
  /\ Free(t) /\ calls < MaxCalls
  /\ calls' = calls + 1
  /\ tasks' = Begin(t, Call("getRawDatum", key, NoValue, TtlUndefined, "read"))
  /\ UNCHANGED <<impl, cwd, configured, options, dir, files, now, timers, handle, lastOp, sweeps>>

\* data() up to its first filesystem call, for keys, length, values and clear.
DataCall(op) ==
  [Call(op, "", NoValue, TtlUndefined,
        CASE impl = "promises" -> "readdir"
          [] impl = "callbacks" -> "existsDir"
          [] impl = "class" -> "done")
     EXCEPT !.ok = impl # "class",
            !.err = IF impl = "class" THEN "ReferenceError" ELSE ""]

\* keys(), and length() and values(), which differ in what they map the data to.
keys(t) ==
  /\ Free(t) /\ calls < MaxCalls
  /\ calls' = calls + 1
  /\ tasks' = Begin(t, DataCall("keys"))
  /\ UNCHANGED <<impl, cwd, configured, options, dir, files, now, timers, handle, lastOp, sweeps>>

clear(t) ==
  /\ Free(t) /\ calls < MaxCalls
  /\ calls' = calls + 1
  /\ tasks' = Begin(t, DataCall("clear"))
  /\ lastOp' = Forget(Keys)
  /\ UNCHANGED <<impl, cwd, configured, options, dir, files, now, timers, handle, sweeps>>

\* removeExpiredItems up to its first filesystem call.  In the class
\* implementation data() evaluates readdir(dir) with no dir in scope: a
\* ReferenceError rejects the call at once.
SweepCall(isTick) ==
  [Call("removeExpiredItems", "", NoValue, TtlUndefined,
        CASE impl = "promises" -> "readdir"
          [] impl = "callbacks" -> "existsDir"
          [] impl = "class" -> "done")
     EXCEPT !.bg = isTick, !.ok = impl # "class",
            !.err = IF impl = "class" THEN "ReferenceError" ELSE ""]

removeExpiredItems(t) ==
  /\ Free(t) /\ calls < MaxCalls
  /\ calls' = calls + 1
  /\ tasks' = Begin(t, SweepCall(FALSE))
  /\ lastOp' = Forget(Keys)
  /\ UNCHANGED <<impl, cwd, configured, options, dir, files, now, timers, handle, sweeps>>

\* A tick of the interval timer calls removeExpiredItems.
intervalFires(t) ==
  /\ Free(t) /\ timers > 0
  /\ tasks' = Begin(t, SweepCall(TRUE))
  /\ lastOp' = Forget(Keys)
  /\ UNCHANGED <<impl, cwd, configured, options, dir, files, now, timers, handle, calls>>

\* The ticks counted, for the specifications that bound them.
sweeperTick(t) ==
  /\ sweeps < MaxSweeps
  /\ sweeps' = sweeps + 1
  /\ intervalFires(t)

\* The ticks of a timer that fires for as long as it is active.
sweeperTickAgain(t) ==
  /\ intervalFires(t)
  /\ UNCHANGED sweeps

\* ------------------------------------------------------------ steps
\* A faulty removeItem that deletes the file of one fixed key:
\* C24_SingleFile must not survive it.
DeleteKey_fixed(tk) == IF tk.op \in {"removeExpiredItems", "clear"} THEN Head(tk.keys) ELSE "a"

\* The key whose file the task's deleteFile is about.
DeleteKey(tk) == IF tk.op \in {"removeExpiredItems", "clear"} THEN Head(tk.keys) ELSE tk.key

\* The loops of removeExpiredItems and clear: removeItem of the next key.
\* getDatumPath of an undefined key throws (md5 is given no string).
DeleteNext(tk, ks) ==
  IF ks = <<>> THEN Done([tk EXCEPT !.keys = <<>>], NoValue)
  ELSE IF Head(ks) = UndefKey THEN Failed([tk EXCEPT !.keys = ks], "TypeError")
  ELSE [tk EXCEPT !.keys = ks, !.pc = DeletePc]

\* The code after deleteFile returned {existed, removed}.
AfterDelete(tk, existed, removed) ==
  CASE tk.op = "removeItem" ->
         [Done(tk, NoValue) EXCEPT !.existed = existed, !.removed = removed]
    [] tk.op = "getItem" -> Done(tk, NoValue)
    [] tk.op \in {"removeExpiredItems", "clear"} -> DeleteNext(tk, Tail(tk.keys))

\* A faulty deleteFile that rethrows ENOENT: C8_IdempotentRemoval must not survive it.
deleteFileCatch_rethrow(tk) == Failed(tk, "ENOENT")

\* The catch block of deleteFile: unlink failed with ENOENT.  The callbacks
\* deleteFile reports existed as fs.exists answered before.
deleteFileCatch(tk) == AfterDelete(tk, impl = "callbacks", FALSE)

\* History: what a deleteFile on the key leaves in lastOp.
Removed(tk) == IF tk.op = "removeItem" /\ Solo(tk)
               THEN [op |-> "removeItem", value |-> NoValue, ttl |-> NoTTL]
               ELSE NoHistory

\* A faulty keys(filter) that ignores its filter: C6_SweeperCorrectness must not survive it.
expiredKeys_unfiltered(data, clock) == [i \in 1..Len(data) |-> data[i].key]

\* keys(isExpired): the keys of the data that are expired at the clock.
RECURSIVE expiredKeys(_, _)
expiredKeys(data, clock) ==
  IF data = <<>> THEN <<>>
  ELSE IF isExpired(Head(data), clock)
       THEN <<Head(data).key>> \o expiredKeys(Tail(data), clock)
       ELSE expiredKeys(Tail(data), clock)

\* removeExpiredItems, keys (length, values) and clear once readDirectory has
\* its data.
AfterData(tk, data) ==
  LET tk2 == [tk EXCEPT !.data = data, !.list = <<>>, !.tchk = now]
  IN CASE tk.op = "removeExpiredItems" -> DeleteNext(tk2, expiredKeys(data, now))
       [] tk.op = "keys" -> Done(tk2, NoValue)
       [] tk.op = "clear" -> DeleteNext(tk2, [i \in 1..Len(data) |-> data[i].key])

\* readdir's listing: the names of the files there are, in directory order.
RECURSIVE listing(_)
listing(names) ==
  IF names = <<>> THEN <<>>
  ELSE IF files[Head(names)] # NoFile THEN <<Head(names)>> \o listing(Tail(names))
       ELSE listing(Tail(names))

\* A faulty updateItem that always recomputes the ttl: C4_UpdateKeepsTTL must not survive it.
updateTTL_recomputed(previousDatum, ttlArg, optionsTtl, clock) ==
  calcTTL(ttlArg, optionsTtl, clock)

\* The ttl updateItem writes: the previous datum's when that is truthy and not
\* expired and options.ttl is falsy, else as setItem computes it.
updateTTL(previousDatum, ttlArg, optionsTtl, clock) ==
  IF previousDatum.def /\ ~isExpired(previousDatum, clock)
  THEN (IF truthy(ttlArg) THEN calcTTL(ttlArg, optionsTtl, clock) ELSE previousDatum.ttl)
  ELSE calcTTL(ttlArg, optionsTtl, clock)

\* The code of getItem, getDatum, updateItem and readDirectory after readFile.
AfterRead(tk, r) ==
  CASE tk.op = "getDatum" ->
         IF r.ok THEN [Done(tk, r.datum.value) EXCEPT !.datum = r.datum]
         ELSE Failed(tk, "invalid")
    [] tk.op = "getItem" ->
         IF ~r.ok THEN Failed(tk, "invalid")
         ELSE LET tk2 == [tk EXCEPT !.datum = r.datum, !.tchk = now]
              IN IF isExpired(r.datum, now) THEN [tk2 EXCEPT !.pc = DeletePc]
                 ELSE IF ~r.datum.def THEN Failed(tk2, "TypeError")
                 ELSE Done(tk2, r.datum.value)
    [] tk.op = "updateItem" ->
         IF ~r.ok THEN Failed(tk, "invalid")
         ELSE LET previousDatum == r.datum
                  ttl == updateTTL(previousDatum, tk.ttlArg, options.ttl, now)
              IN [tk EXCEPT !.datum = Datum(tk.key, tk.value, ttl), !.tchk = now,
                            !.data = <<previousDatum>>, !.pc = WritePc]
    [] tk.op \in {"removeExpiredItems", "keys", "clear"} ->
         IF ~r.ok THEN Failed(tk, "invalid")
         ELSE IF Tail(tk.list) = <<>> THEN AfterData(tk, Append(tk.data, r.datum))
         ELSE [tk EXCEPT !.data = Append(tk.data, r.datum), !.list = Tail(tk.list)]

readFileStep(t) ==
  /\ At(t, "read")
  /\ LET tk == tasks[t]
         f == IF tk.op \in {"removeExpiredItems", "keys", "clear"} THEN Head(tk.list)
              ELSE md5(tk.key)
     IN tasks' = [tasks EXCEPT ![t] =
                    IF tk.op = "getRawDatum"
                    THEN [Done(tk, NoValue) EXCEPT !.raw = readFileRaw(fsRead(f))]
                    ELSE AfterRead(tk, readFile(fsRead(f), options.forgiveParseErrors))]
  /\ UNCHANGED <<impl, cwd, configured, options, dir, files, now, timers, handle, lastOp, calls, sweeps>>

writeFileStep(t) ==
  /\ At(t, "write")
  /\ LET tk == tasks[t]
     IN IF dir = "present"
        THEN /\ files' = [files EXCEPT ![md5(tk.key)] = stringify(tk.datum)]
             /\ tasks' = [tasks EXCEPT ![t] = Done(tk, tk.datum.value)]
             /\ lastOp' = [lastOp EXCEPT ![tk.key] =
                             IF tk.op = "setItem" /\ Solo(tk)
                             THEN [op |-> "setItem", value |-> tk.value, ttl |-> tk.datum.ttl]
                             ELSE NoHistory]
        ELSE /\ tasks' = [tasks EXCEPT ![t] = Failed(tk, "ENOENT")]
             /\ UNCHANGED <<files, lastOp>>
  /\ UNCHANGED <<impl, cwd, configured, options, dir, now, timers, handle, calls, sweeps>>

\* mkdir: recursive in init (pc mkdirp), not recursive in the class writeFile.
mkdirStep(t) ==
  /\ ~Settled /\ tasks[t].pc \in {"mkdirp", "mkdir"}
  /\ LET tk == tasks[t]
     IN IF tk.pc = "mkdirp"
        THEN /\ dir' = "present"
             /\ InitTail(t, tk)
        ELSE /\ UNCHANGED <<timers, handle>>
             /\ IF dir = "present"
                THEN /\ tasks' = [tasks EXCEPT ![t] = Failed(tk, "EEXIST")]
                     /\ UNCHANGED dir
                ELSE /\ tasks' = [tasks EXCEPT ![t] = [tk EXCEPT !.pc = "write"]]
                     /\ dir' = "present"
  /\ UNCHANGED <<impl, cwd, configured, options, files, now, lastOp, calls, sweeps>>

\* fs.exists on the directory (callbacks: ensureDirectory, readDirectory).
existsDirStep(t) ==
  /\ At(t, "existsDir")
  /\ LET tk == tasks[t]
     IN IF tk.op = "init"
        THEN IF dir = "present" THEN InitTail(t, tk)
             ELSE /\ tasks' = [tasks EXCEPT ![t] = [tk EXCEPT !.pc = "mkdirp"]]
                  /\ UNCHANGED <<timers, handle>>
        ELSE /\ tasks' = [tasks EXCEPT ![t] =
                            IF dir = "present" THEN [tk EXCEPT !.pc = "readdir"]
                            ELSE Failed(tk, "nodir")]
             /\ UNCHANGED <<timers, handle>>
  /\ UNCHANGED <<impl, cwd, configured, options, dir, files, now, lastOp, calls, sweeps>>

readdirStep(t) ==
  /\ At(t, "readdir")
  /\ LET tk == tasks[t]
         names == SelectSeq(listing(DirOrder), LAMBDA currentFile : ~hidden(currentFile))
     IN tasks' = [tasks EXCEPT ![t] =
                    IF dir # "present" THEN Failed(tk, "ENOENT")
                    ELSE IF names = <<>> THEN AfterData(tk, <<>>)
                    ELSE [tk EXCEPT !.list = names, !.pc = "read"]]
  /\ UNCHANGED <<impl, cwd, configured, options, dir, files, now, timers, handle, lastOp, calls, sweeps>>

\* fs.exists on the file (callbacks deleteFile).
existsFileStep(t) ==
  /\ At(t, "existsFile")
  /\ LET tk == tasks[t]
         k == DeleteKey(tk)
     IN IF fsRead(md5(k)) # NoFile
        THEN /\ tasks' = [tasks EXCEPT ![t] = [tk EXCEPT !.pc = "unlink"]]
             /\ UNCHANGED lastOp
        ELSE /\ tasks' = [tasks EXCEPT ![t] = AfterDelete(tk, FALSE, FALSE)]
             /\ lastOp' = [lastOp EXCEPT ![k] = Removed(tk)]
  /\ UNCHANGED <<impl, cwd, configured, options, dir, files, now, timers, handle, calls, sweeps>>

\* unlink; ENOENT is caught.
unlinkStep(t) ==
  /\ At(t, "unlink")
  /\ LET tk == tasks[t]
         k == DeleteKey(tk)
         f == md5(k)
     IN /\ lastOp' = [lastOp EXCEPT ![k] = Removed(tk)]
        /\ IF fsRead(f) # NoFile
           THEN /\ files' = [files EXCEPT ![f] = NoFile]
                /\ tasks' = [tasks EXCEPT ![t] = AfterDelete(tk, TRUE, TRUE)]
           ELSE /\ tasks' = [tasks EXCEPT ![t] = deleteFileCatch(tk)]
                /\ UNCHANGED files
  /\ UNCHANGED <<impl, cwd, configured, options, dir, now, timers, handle, calls, sweeps>>

\* The code after a filesystem call that failed with an error other than ENOENT
\* (EIO, EACCES).  readFile, writeFile, readdir and unlink pass the error on.
\* fs.exists has no error to pass: it answers false.
AfterFailure(tk) ==
  CASE tk.pc = "existsFile" -> AfterDelete(tk, FALSE, FALSE)
    [] tk.pc = "existsDir" -> IF tk.op = "init" THEN [tk EXCEPT !.pc = "mkdirp"]
                              ELSE Failed(tk, "nodir")
    [] OTHER -> Failed(tk, "EIO")

\* The filesystem call task t waits for fails.
ioFailure(t) ==
  /\ ~Settled /\ tasks[t].pc \in {"read", "write", "readdir", "unlink", "existsFile", "existsDir"}
  /\ tasks' = [tasks EXCEPT ![t] = AfterFailure([tasks[t] EXCEPT !.fault = TRUE])]
  /\ lastOp' = [k \in Keys |-> NoHistory]
  /\ UNCHANGED <<impl, cwd, configured, options, dir, files, now, timers, handle, calls, sweeps>>

\* The caller takes the result; the task slot is free again.
Return(t) ==
  /\ tasks[t].pc = "done"
  /\ tasks' = [tasks EXCEPT ![t] = Idle]
  /\ UNCHANGED <<impl, cwd, configured, options, dir, files, now, timers, handle, lastOp, calls, sweeps>>

\* ------------------------------------------------------------ environment
\* getDatumPath(key): path.join(this.options.dir, md5(key)).
getDatumPath(key) == options.dir \o <<md5(key)>>

\* The file a filesystem call given path works on: a relative path is taken
\* from the working directory of the moment of the call.
fsPath(path) == IF isAbsolute(path) THEN path ELSE cwd \o path

\* process.chdir(wd), by the program that uses the engine.
chdir(wd) ==
  /\ ~Settled /\ wd # cwd
  /\ cwd' = wd
  /\ UNCHANGED <<impl, options, dir, files, now, tasks, timers, handle, lastOp, calls,
                 sweeps, configured>>

Tick ==
  /\ ~Settled /\ now < StartTime + MaxTicks * Step
  /\ now' = now + Step
  /\ UNCHANGED <<impl, cwd, configured, options, dir, files, tasks, timers, handle, lastOp, calls, sweeps>>

\* Another program writes malformed bytes, or "{}", at a key's location.
ExternalWrite(f, text) ==
  /\ ~Settled /\ dir = "present" /\ calls < MaxCalls
  /\ files[f] # text
  /\ calls' = calls + 1
  /\ files' = [files EXCEPT ![f] = text]
  /\ lastOp' = [k \in Keys |-> IF md5(k) = f THEN NoHistory ELSE lastOp[k]]
  /\ tasks' = [u \in Tasks |-> IF Running(u) THEN [tasks[u] EXCEPT !.mates = "other"]
                               ELSE tasks[u]]
  /\ UNCHANGED <<impl, cwd, configured, options, dir, now, timers, handle, sweeps>>

\* ------------------------------------------------------------ specification
\* The options the constructor is called with.
ConstructorOptions == {NoOptions, UserOption({"forgiveParseErrors"}, 0, 0, TRUE)}

\* A directory an earlier run left: setItem("a", v, {ttl: ShortTTL}) and
\* setItem("b", v) at StartTime, with no options.ttl.
OldFiles ==
  [f \in FileNames |->
     CASE f = md5("a") ->
            stringify(Datum("a", OldValue, calcTTL(TtlNumber(ShortTTL), 0, StartTime)))
       [] f = md5("b") ->
            stringify(Datum("b", OldValue, calcTTL(TtlUndefined, 0, StartTime)))
       [] OTHER -> NoFile]

\* The constructor: setOptions with no this.options yet; nothing on disk is touched.
Init ==
  /\ impl \in Impls
  /\ cwd = CwdAtStart
  /\ configured = resolveDir(defaults.dir, cwd)
  /\ options \in {setOptions(uo, FALSE, defaults, cwd) : uo \in ConstructorOptions}
  /\ \/ dir = "absent" /\ files = NoFiles
     \/ dir = "present" /\ files \in {NoFiles, OldFiles}
  /\ now = StartTime
  /\ tasks = [t \in Tasks |-> Idle]
  /\ timers = 0
  /\ handle = FALSE
  /\ lastOp = [k \in Keys |-> NoHistory]
  /\ calls = 0
  /\ sweeps = 0

\* The calls, the ticks of the interval timer, the clock, and other programs.
Environment ==
  \/ \E t \in Tasks, uo \in UserOptions : init(t, uo)
  \/ \E t \in Tasks, k \in Keys, a \in TtlArgs : setItem(t, k, calls + 1, a)
  \/ \E t \in Tasks, k \in Keys, a \in UpdateTtlArgs : updateItem(t, k, calls + 1, a)
  \/ \E t \in Tasks, k \in Keys : getItem(t, k)
  \/ \E t \in Tasks, k \in Keys : getDatum(t, k)
  \/ \E t \in Tasks, k \in Keys : removeItem(t, k)
  \/ \E t \in Tasks : removeExpiredItems(t)
  \/ \E t \in Tasks : sweeperTick(t)
  \/ Tick
  \/ \E k \in CorruptibleKeys, text \in {Garbage, EmptyText} : ExternalWrite(md5(k), text)

\* The filesystem calls src/unnamed/part_000 makes, and the return to the caller.
TaskStep(t) ==
  \/ readFileStep(t)
  \/ writeFileStep(t)
  \/ mkdirStep(t)
  \/ readdirStep(t)
  \/ unlinkStep(t)
  \/ Return(t)

\* Those of the class implementation, whose data() fails before its readdir.
ClassStep(t) ==
  \/ readFileStep(t)
  \/ writeFileStep(t)
  \/ mkdirStep(t)
  \/ unlinkStep(t)
  \/ Return(t)

\* Those of the callbacks implementation ask fs.exists first.
CallbacksStep(t) ==
  \/ TaskStep(t)
  \/ existsDirStep(t)
  \/ existsFileStep(t)

Next == Environment \/ \E t \in Tasks : CallbacksStep(t)
NextPromises == Environment \/ \E t \in Tasks : TaskStep(t)
NextClass == Environment \/ \E t \in Tasks : ClassStep(t)

InitPromises == Init /\ impl = "promises"
InitClass == Init /\ impl = "class"
InitPrototype == Init /\ impl \in {"promises", "callbacks"}

\* The three implementations.
Spec == Init /\ [][Next]_vars

\* The implementations one at a time, and the two prototype-based ones.
SpecPromises == InitPromises /\ [][NextPromises]_vars
SpecClass == InitClass /\ [][NextClass]_vars
SpecPrototype == InitPrototype /\ [][Next]_vars

\* The engine with its sweeper left running: the interval timer fires again and
\* again, every filesystem call a task waits for completes, and the clock
\* advances.  Foreground calls are init and setItem.
NextSweeper ==
  \/ \E t \in Tasks, uo \in UserOptions : init(t, uo)
  \/ \E t \in Tasks, k \in Keys, a \in InsertTtlArgs : setItem(t, k, calls + 1, a)
  \/ \E t \in Tasks : sweeperTickAgain(t)
  \/ \E t \in Tasks : TaskStep(t)
  \/ Tick

SpecSweeper ==
  /\ InitPromises
  /\ [][NextSweeper]_vars
  /\ \A t \in Tasks : WF_vars(TaskStep(t))
  /\ WF_vars(\E t \in Tasks : sweeperTickAgain(t))
  /\ WF_vars(Tick)

\* A storage directory that also holds a hidden file, enumerated and cleared.
WithHidden(fs) == [fs EXCEPT ![HiddenFile] = Garbage]

InitBulk ==
  /\ impl \in {"promises", "class"}
  /\ cwd = CwdAtStart
  /\ configured = resolveDir(defaults.dir, cwd)
  /\ options \in {setOptions(uo, FALSE, defaults, cwd) : uo \in ConstructorOptions}
  /\ dir = "present" /\ files \in {WithHidden(NoFiles), WithHidden(OldFiles)}
  /\ now = StartTime
  /\ tasks = [t \in Tasks |-> Idle]
  /\ timers = 0
  /\ handle = FALSE
  /\ lastOp = [k \in Keys |-> NoHistory]
  /\ calls = 0
  /\ sweeps = 0

InitEnum == InitBulk /\ impl = "promises"

NextBulk ==
  \/ \E t \in Tasks, uo \in UserOptions : init(t, uo)
  \/ \E t \in Tasks, k \in Keys, a \in InsertTtlArgs : setItem(t, k, calls + 1, a)
  \/ \E t \in Tasks : keys(t)
  \/ \E t \in Tasks : clear(t)
  \/ \E t \in Tasks : TaskStep(t)
  \/ Tick
  \/ \E k \in CorruptibleKeys, text \in {Garbage, EmptyText} : ExternalWrite(md5(k), text)

\* Enumeration and clear in src/unnamed/part_000, and with the class implementation.
SpecEnum == InitEnum /\ [][NextBulk]_vars
SpecBulk == InitBulk /\ [][NextBulk]_vars
\* Reads and inspection reads next to writes, without init: the promises and
\* the callbacks implementation.
InspectStep(t) ==
  \/ readFileStep(t)
  \/ writeFileStep(t)
  \/ existsFileStep(t)
  \/ unlinkStep(t)
  \/ Return(t)

NextInspect ==
  \/ \E t \in Tasks, k \in Keys, a \in InsertTtlArgs : setItem(t, k, calls + 1, a)
  \/ \E t \in Tasks, k \in Keys : getItem(t, k)
  \/ \E t \in Tasks, k \in Keys : getDatum(t, k)
  \/ \E t \in Tasks, k \in Keys : getRawDatum(t, k)
  \/ \E t \in Tasks : InspectStep(t)
  \/ Tick

SpecInspect == InitPrototype /\ [][NextInspect]_vars

\* The public operations on a filesystem whose calls may fail, in the promises
\* and the callbacks implementation.
FaultStep(t) ==
  \/ readFileStep(t)
  \/ writeFileStep(t)
  \/ readdirStep(t)
  \/ existsDirStep(t)
  \/ existsFileStep(t)
  \/ unlinkStep(t)
  \/ ioFailure(t)
  \/ Return(t)

NextFaults ==
  \/ \E t \in Tasks, k \in Keys, a \in InsertTtlArgs : setItem(t, k, calls + 1, a)
  \/ \E t \in Tasks, k \in Keys, a \in InsertTtlArgs : updateItem(t, k, calls + 1, a)
  \/ \E t \in Tasks, k \in Keys : getItem(t, k)
  \/ \E t \in Tasks, k \in Keys : getDatum(t, k)
  \/ \E t \in Tasks, k \in Keys : removeItem(t, k)
  \/ \E t \in Tasks : keys(t)
  \/ \E t \in Tasks : clear(t)
  \/ \E t \in Tasks : removeExpiredItems(t)
  \/ \E t \in Tasks : FaultStep(t)
  \/ Tick

InitFaults == InitPrototype /\ dir = "present"

SpecFaults == InitFaults /\ [][NextFaults]_vars
\* The engine in a process that changes its working directory.
NextDir ==
  \/ \E t \in Tasks, uo \in DirOptions : init(t, uo)
  \/ \E t \in Tasks, k \in Keys, a \in InsertTtlArgs : setItem(t, k, calls + 1, a)
  \/ \E t \in Tasks, k \in Keys : getItem(t, k)
  \/ \E t \in Tasks, k \in Keys : removeItem(t, k)
  \/ \E t \in Tasks : keys(t)
  \/ \E t \in Tasks : TaskStep(t)
  \/ \E wd \in Cwds : chdir(wd)

SpecDir == InitPromises /\ [][NextDir]_vars

\* The engine alone on its directory: no other program writes there.
NextWrites ==
  \/ \E t \in Tasks, k \in Keys, a \in InsertTtlArgs : setItem(t, k, calls + 1, a)
  \/ \E t \in Tasks, k \in Keys, a \in UpdateTtlArgs : updateItem(t, k, calls + 1, a)
  \/ \E t \in Tasks, k \in Keys : getItem(t, k)
  \/ \E t \in Tasks, k \in Keys : removeItem(t, k)
  \/ \E t \in Tasks : readFileStep(t) \/ writeFileStep(t) \/ unlinkStep(t) \/ Return(t)
  \/ Tick

SpecWrites == InitPromises /\ [][NextWrites]_vars

\* Enumeration and clear next to removals, on a directory of valid records that
\* nothing writes to.
InitRace == InitEnum /\ files = WithHidden(OldFiles)

NextRace ==
  \/ \E t \in Tasks : keys(t)
  \/ \E t \in Tasks : clear(t)
  \/ \E t \in Tasks, k \in Keys : removeItem(t, k)
  \/ \E t \in Tasks, k \in Keys : getItem(t, k)
  \/ \E t \in Tasks : removeExpiredItems(t)
  \/ \E t \in Tasks : readdirStep(t) \/ readFileStep(t) \/ unlinkStep(t) \/ Return(t)
  \/ Tick

SpecRace == InitRace /\ [][NextRace]_vars

\* ------------------------------------------------------------ claims
\* A file text that holds a record of key k (spec 3: its key is non-empty).
IsRecord(text, k) ==
  text.kind = "json" /\ "key" \in text.fields /\ text.key = k /\ k # ""
\* A record's ttl is in the past at the clock.
TtlPassed(text, clock) == "ttl" \in text.fields /\ text.ttl < clock
\* A file text that does not decode, or decodes to a value with no non-empty key.
IsCorrupt(text) ==
  text # NoFile /\ (text.kind # "json" \/ "key" \notin text.fields \/ text.key = "")
ExpiredRecords(fs, clock) ==
  {k \in Keys : IsRecord(fs[md5(k)], k) /\ TtlPassed(fs[md5(k)], clock)}
Settles(t, op) == tasks[t].op = op /\ tasks[t].pc = "done"

\* C1 (round trip): a getItem(k) that runs alone, after a setItem(k, v) that
\* completed as the last writing call on k, with the record's ttl not passed,
\* completes without error and returns v.
C1_RoundTrip ==
  \A t \in Tasks :
    LET tk == tasks[t] IN
    (Settles(t, "getItem") /\ Solo(tk) /\ tk.after.op = "setItem"
       /\ ~(tk.after.ttl # NoTTL /\ tk.after.ttl < now))
    => (tk.ok /\ tk.retValue = tk.after.value)

\* C2 (TTL expiry): a getItem(k) that runs alone on a record whose ttl had passed
\* when it was called returns undefined (not found), without error, and the
\* record's file is gone when it returns.
C2_TTLExpiry ==
  \A t \in Tasks :
    LET tk == tasks[t] IN
    (Settles(t, "getItem") /\ Solo(tk) /\ dir = "present"
       /\ IsRecord(tk.pre[md5(tk.key)], tk.key) /\ TtlPassed(tk.pre[md5(tk.key)], tk.t0))
    => (tk.ok /\ tk.retValue = NoValue /\ files[md5(tk.key)] = NoFile)

C2_Witness ==
  \E t \in Tasks :
    LET tk == tasks[t] IN
    /\ Settles(t, "getItem") /\ Solo(tk) /\ dir = "present"
    /\ IsRecord(tk.pre[md5(tk.key)], tk.key) /\ TtlPassed(tk.pre[md5(tk.key)], tk.t0)
    /\ tk.ok /\ tk.retValue = NoValue /\ files[md5(tk.key)] = NoFile

\* C3 (corrupt file policy): a getDatum(k) that runs alone fails on a corrupt file
\* when forgiveParseErrors is false and returns the empty object when it is true;
\* on a file that holds a record of k it returns that record.
C3_CorruptPolicy ==
  \A t \in Tasks :
    LET tk == tasks[t]
        text == tk.pre[md5(tk.key)] IN
    (Settles(t, "getDatum") /\ Solo(tk) /\ dir = "present")
    => /\ IsCorrupt(text) /\ ~options.forgiveParseErrors => ~tk.ok
       /\ IsCorrupt(text) /\ options.forgiveParseErrors => tk.ok /\ tk.datum = EmptyObject
       /\ IsRecord(text, tk.key) => tk.ok /\ tk.datum = parse(text)

\* C4 as claimed: an updateItem(k, v2, opts) that runs alone on an unexpired
\* record of k with expiry T writes {k, v2, T} when opts has no ttl, and
\* {k, v2, calcTTL(opts.ttl)} when opts has a ttl, whatever that ttl is.
C4_AnyTtlOverrides ==
  \A t \in Tasks :
    LET tk == tasks[t]
        text == tk.pre[md5(tk.key)] IN
    (Settles(t, "updateItem") /\ Solo(tk) /\ IsRecord(text, tk.key) /\ ~TtlPassed(text, now))
    => /\ tk.ok
       /\ files[md5(tk.key)] =
            stringify(Datum(tk.key, tk.value,
                            IF tk.ttlArg.t # "undefined"
                            THEN calcTTL(tk.ttlArg, options.ttl, tk.tchk)
                            ELSE parse(text).ttl))

\* C4 (update preserves TTL), amended: an updateItem(k, v2, opts) that runs alone
\* on an unexpired record of k with expiry T writes {k, v2, T} when opts.ttl is
\* omitted or falsy (null, 0, false), and {k, v2, calcTTL(opts.ttl)} when opts.ttl
\* is truthy.
C4_UpdateKeepsTTL ==
  \A t \in Tasks :
    LET tk == tasks[t]
        text == tk.pre[md5(tk.key)] IN
    (Settles(t, "updateItem") /\ Solo(tk) /\ IsRecord(text, tk.key) /\ ~TtlPassed(text, now))
    => /\ tk.ok
       /\ files[md5(tk.key)] =
            stringify(Datum(tk.key, tk.value,
                            IF truthy(tk.ttlArg)
                            THEN calcTTL(tk.ttlArg, options.ttl, tk.tchk)
                            ELSE parse(text).ttl))

C4_Witness ==
  \E t \in Tasks :
    LET tk == tasks[t]
        text == tk.pre[md5(tk.key)] IN
    /\ Settles(t, "updateItem") /\ Solo(tk) /\ IsRecord(text, tk.key)
    /\ "ttl" \in text.fields /\ ~TtlPassed(text, now) /\ ~truthy(tk.ttlArg)
    /\ tk.ok /\ files[md5(tk.key)].ttl = text.ttl /\ files[md5(tk.key)].value # text.value

\* C5 (updateItem on no record is setItem): an updateItem(k, v, opts) that runs
\* alone on a key with no file, or with a record whose ttl had passed, leaves the
\* record setItem(k, v, opts) writes: {k, v, calcTTL(opts.ttl)}, the expiry coming
\* from options.ttl when opts has no ttl.
C5_UpdateLikeSet ==
  \A t \in Tasks :
    LET tk == tasks[t]
        text == tk.pre[md5(tk.key)] IN
    (Settles(t, "updateItem") /\ Solo(tk) /\ dir = "present" /\ tk.ok
       /\ (text = NoFile \/ (IsRecord(text, tk.key) /\ TtlPassed(text, tk.t0))))
    => files[md5(tk.key)] =
         stringify(Datum(tk.key, tk.value, calcTTL(tk.ttlArg, options.ttl, tk.tchk)))

\* A directory content in which every file holds a record of the key it is named by.
Healthy(fs) == \A k \in Keys : fs[md5(k)] = NoFile \/ IsRecord(fs[md5(k)], k)

\* No foreground call is running and none will start.
Quiet == calls = MaxCalls /\ \A t \in Tasks : tasks[t].op # "idle" => tasks[t].bg

\* The removeExpiredItems runs in flight never overlapped with a foreground call.
CleanSweeps == \A t \in Tasks : tasks[t].mates # "other"

NoTtlRecords(fs) == {k \in Keys : IsRecord(fs[md5(k)], k) /\ "ttl" \notin fs[md5(k)].fields}

\* C6 (sweeper correctness): with the interval timer active, a directory of
\* records and no foreground call running or to come, every record whose ttl has
\* passed is eventually deleted, and the sweeps that started since delete no
\* record without ttl.
C6_SweeperCorrectness ==
  /\ \A k \in Keys :
       (timers > 0 /\ Quiet /\ Healthy(files) /\ k \in ExpiredRecords(files, now))
         ~> (files[md5(k)] = NoFile)
  /\ [][(Quiet /\ CleanSweeps /\ Healthy(files))
          => \A k \in NoTtlRecords(files) : files'[md5(k)] = files[md5(k)]]_vars

C6_Witness ==
  \E t \in Tasks :
    LET tk == tasks[t] IN
    /\ timers > 0 /\ Quiet /\ Healthy(files)
    /\ Settles(t, "removeExpiredItems") /\ tk.bg /\ tk.ok /\ tk.mates = "none"
    /\ ExpiredRecords(tk.pre, tk.tchk) # {} /\ ExpiredRecords(files, now) = {}
    /\ NoTtlRecords(files) # {} /\ NoTtlRecords(files) = NoTtlRecords(tk.pre)

\* C7 (removeExpiredItems postcondition): a removeExpiredItems that runs alone on
\* a directory of records completes without error; every record whose ttl was in
\* the past at its scan is deleted and every other file is unchanged.
C7_SweepPost ==
  \A t \in Tasks :
    LET tk == tasks[t] IN
    (Settles(t, "removeExpiredItems") /\ Solo(tk) /\ dir = "present" /\ Healthy(tk.pre))
    => /\ tk.ok
       /\ \A k \in Keys :
            files[md5(k)] = IF k \in ExpiredRecords(tk.pre, tk.tchk) THEN NoFile
                            ELSE tk.pre[md5(k)]

\* C8 (idempotent removal): a removeItem(k) that runs alone never fails; with no
\* file at k it reports existed = removed = false, with a file it deletes it and
\* reports existed = removed = true; right after another removeItem(k) it
\* reports existed = removed = false.
C8_IdempotentRemoval ==
  \A t \in Tasks :
    LET tk == tasks[t]
        text == tk.pre[md5(tk.key)] IN
    (Settles(t, "removeItem") /\ Solo(tk))
    => /\ tk.ok
       /\ files[md5(tk.key)] = NoFile
       /\ tk.existed = (text # NoFile) /\ tk.removed = (text # NoFile)
       /\ tk.after.op = "removeItem" => ~tk.existed /\ ~tk.removed

C8_Witness ==
  \E t \in Tasks :
    LET tk == tasks[t] IN
    /\ Settles(t, "removeItem") /\ Solo(tk) /\ tk.after.op = "removeItem"
    /\ tk.ok /\ ~tk.existed /\ ~tk.removed

\* C9 (overlapping sweeps): a removeExpiredItems run that overlapped only with
\* other removeExpiredItems runs (themselves overlapping with nothing but
\* removeExpiredItems runs), on a directory of records, completes without
\* error; the records whose ttl was in the past at its scan are gone, no file
\* was created or changed, and every record whose ttl has not passed is kept.
C9_OverlappingSweeps ==
  \A t \in Tasks :
    LET tk == tasks[t] IN
    (Settles(t, "removeExpiredItems") /\ tk.mates = "sweeps" /\ dir = "present"
       /\ Healthy(tk.pre))
    => /\ tk.ok
       /\ \A k \in Keys :
            /\ k \in ExpiredRecords(tk.pre, tk.tchk) => files[md5(k)] = NoFile
            /\ files[md5(k)] \in {NoFile, tk.pre[md5(k)]}
            /\ k \notin ExpiredRecords(tk.pre, now) => files[md5(k)] = tk.pre[md5(k)]

C9_Witness ==
  \E t \in Tasks, u \in Tasks :
    LET tk == tasks[t] IN
    /\ t # u /\ tasks[u].op = "removeExpiredItems" /\ tasks[u].pc = "unlink"
    /\ Settles(t, "removeExpiredItems") /\ tk.mates = "sweeps" /\ tk.ok
    /\ Healthy(tk.pre) /\ ExpiredRecords(tk.pre, tk.tchk) # {}
    /\ files[md5(Head(tasks[u].keys))] = NoFile

\* C10 (sweeper lifecycle): when an init that ran alone has completed, at most
\* one interval timer is active, and one is active exactly when
\* options.expiredInterval is truthy.
C10_SweeperLifecycle ==
  \A t \in Tasks :
    (Settles(t, "init") /\ Solo(tasks[t]))
    => /\ timers <= 1
       /\ (timers = 1) = (options.expiredInterval # 0)

\* A ttl argument calcTTL replaces by the default: a date that is not in the
\* future, or a truthy value that is not a positive number.
InvalidTtl(ttlArg, clock) ==
  \/ ttlArg.t = "date" /\ ttlArg.n <= clock
  \/ ttlArg.t = "number" /\ ttlArg.n < 0

\* C12 (invalid TTL substitution): a setItem that runs alone with a ttl that is a
\* date not in the future, or a number that is not positive, stores the expiry
\* write time + 24 h; the record is not expired when the call returns.
C12_InvalidTtlSubstitution ==
  \A t \in Tasks :
    LET tk == tasks[t]
        text == files[md5(tk.key)] IN
    (Settles(t, "setItem") /\ Solo(tk) /\ tk.ok /\ InvalidTtl(tk.ttlArg, tk.t0))
    => /\ "ttl" \in text.fields /\ text.ttl = tk.t0 + defaultTTL
       /\ ~TtlPassed(text, now)

\* C13 (valid TTL computation): a setItem that runs alone in an existing
\* directory stores no expiry when the ttl is omitted and options.ttl is not
\* configured, write time + options.ttl when it is omitted and options.ttl is
\* configured, write time + d for a positive number d, and the timestamp of a
\* future date as it is.
C13_ValidTtl ==
  \A t \in Tasks :
    LET tk == tasks[t]
        text == files[md5(tk.key)] IN
    (Settles(t, "setItem") /\ Solo(tk) /\ dir = "present")
    => /\ tk.ok /\ text.kind = "json" /\ text.key = tk.key /\ text.value = tk.value
       /\ (tk.ttlArg.t = "undefined" /\ options.ttl = 0) => "ttl" \notin text.fields
       /\ (tk.ttlArg.t = "undefined" /\ options.ttl # 0)
            => ("ttl" \in text.fields /\ text.ttl = tk.t0 + options.ttl)
       /\ (tk.ttlArg.t = "number" /\ tk.ttlArg.n > 0)
            => ("ttl" \in text.fields /\ text.ttl = tk.t0 + tk.ttlArg.n)
       /\ (tk.ttlArg.t = "date" /\ tk.ttlArg.n > tk.t0)
            => ("ttl" \in text.fields /\ text.ttl = tk.ttlArg.n)

C13_Witness ==
  \E t \in Tasks :
    LET tk == tasks[t]
        text == files[md5(tk.key)] IN
    /\ Settles(t, "setItem") /\ Solo(tk) /\ dir = "present" /\ tk.ok
    /\ tk.ttlArg.t = "undefined" /\ options.ttl = OptionTTL /\ now > StartTime
    /\ text.ttl = tk.t0 + OptionTTL

\* The keys of the unexpired records of a directory content.
LiveRecords(fs, clock) ==
  {k \in Keys : IsRecord(fs[md5(k)], k) /\ ~TtlPassed(fs[md5(k)], clock)}

\* C11 (enumeration count): with forgiveParseErrors enabled, a keys() (length(),
\* values()) that runs alone yields one entry per unexpired record of the
\* directory and no other entry: nothing for the hidden file, nothing for a
\* corrupt file.
C11_EnumerationCount ==
  \A t \in Tasks :
    LET tk == tasks[t] IN
    (Settles(t, "keys") /\ Solo(tk) /\ dir = "present" /\ options.forgiveParseErrors)
    => /\ tk.ok
       /\ Len(tk.data) = Cardinality(LiveRecords(tk.pre, tk.tchk))
       /\ {tk.data[i].key : i \in 1..Len(tk.data)} = LiveRecords(tk.pre, tk.tchk)

\* C17 (clear postcondition): a clear() that runs alone on a directory of records
\* and a hidden file completes without error, leaves no file of a key, and
\* leaves the hidden file as it was.
C17_ClearPost ==
  \A t \in Tasks :
    LET tk == tasks[t] IN
    (Settles(t, "clear") /\ Solo(tk) /\ dir = "present" /\ Healthy(tk.pre))
    => /\ tk.ok
       /\ \A k \in Keys : files[md5(k)] = NoFile
       /\ files[HiddenFile] = tk.pre[HiddenFile]

\* C15 (missing file is not an error): a getItem, getDatum or getRawDatum that
\* runs alone on a key with no file completes without error, whatever
\* forgiveParseErrors is, yields undefined, {} and "{}" respectively, and leaves
\* every file as it was.
C15_MissingFile ==
  \A t \in Tasks :
    LET tk == tasks[t] IN
    (tk.pc = "done" /\ tk.op \in {"getItem", "getDatum", "getRawDatum"} /\ Solo(tk)
       /\ tk.pre[md5(tk.key)] = NoFile)
    => /\ tk.ok /\ files = tk.pre
       /\ tk.op = "getItem" => tk.retValue = NoValue
       /\ tk.op = "getDatum" => tk.datum = EmptyObject
       /\ tk.op = "getRawDatum" => tk.raw = EmptyText

C15_Witness ==
  \E t \in Tasks :
    LET tk == tasks[t] IN
    /\ Settles(t, "getRawDatum") /\ Solo(tk) /\ tk.pre[md5(tk.key)] = NoFile
    /\ dir = "present" /\ ~options.forgiveParseErrors /\ tk.ok /\ tk.raw = EmptyText

\* C18 (inspection reads have no side effects): no step of a getDatum or
\* getRawDatum changes a file, and one that runs alone on a record whose ttl has
\* passed returns the record (key, value and ttl, respectively the text of the
\* file) and leaves it on disk.
C18_InspectionReads ==
  /\ [][\A t \in Tasks :
          (tasks[t].op \in {"getDatum", "getRawDatum"} /\ tasks'[t] # tasks[t]
             /\ tasks'[t].op = tasks[t].op /\ tasks'[t].mates = tasks[t].mates)
          => (files' = files /\ dir' = dir)]_vars
  /\ [](\A t \in Tasks :
          LET tk == tasks[t]
              text == tk.pre[md5(tk.key)] IN
          (tk.pc = "done" /\ tk.op \in {"getDatum", "getRawDatum"} /\ Solo(tk)
             /\ IsRecord(text, tk.key) /\ TtlPassed(text, tk.t0))
          => /\ tk.ok /\ files[md5(tk.key)] = text
             /\ tk.op = "getDatum" => /\ tk.datum.def /\ tk.datum.key = text.key
                                      /\ tk.datum.value = text.value
                                      /\ tk.datum.ttl = text.ttl
             /\ tk.op = "getRawDatum" => tk.raw = text)

C18_Witness ==
  \E t \in Tasks :
    LET tk == tasks[t]
        text == tk.pre[md5(tk.key)] IN
    /\ Settles(t, "getDatum") /\ Solo(tk) /\ IsRecord(text, tk.key) /\ TtlPassed(text, tk.t0)
    /\ tk.ok /\ tk.datum.ttl = text.ttl /\ files[md5(tk.key)] = text

\* C16 (overwrite, last write wins): a getItem(k) that runs alone returns the
\* value of the setItem that was the last completed call on k, whether or not
\* that setItem replaced an earlier record, while its ttl has not passed; it
\* returns undefined when the last completed call on k was a removeItem.
C16_LastWriteWins ==
  \A t \in Tasks :
    LET tk == tasks[t] IN
    (Settles(t, "getItem") /\ Solo(tk))
    => /\ (tk.after.op = "setItem" /\ ~(tk.after.ttl # NoTTL /\ tk.after.ttl < now))
            => (tk.ok /\ tk.retValue = tk.after.value /\ files[md5(tk.key)].value = tk.after.value)
       /\ tk.after.op = "removeItem" => (tk.ok /\ tk.retValue = NoValue)

\* C19 (a write creates the directory): a setItem or updateItem that runs alone
\* on a key with no file or with a record completes without error, whether the
\* storage directory existed or not; afterwards the directory exists and the
\* file of the key holds the record written.
C19_WriteCreatesDirectory ==
  \A t \in Tasks :
    LET tk == tasks[t]
        text == tk.pre[md5(tk.key)] IN
    (tk.pc = "done" /\ tk.op \in {"setItem", "updateItem"} /\ Solo(tk)
       /\ (text = NoFile \/ IsRecord(text, tk.key)))
    => /\ tk.ok /\ dir = "present"
       /\ files[md5(tk.key)] = stringify(tk.datum)

\* C14 (I/O failures propagate): a public operation one of whose filesystem
\* calls failed with an error other than does-not-exist fails with an error,
\* whatever forgiveParseErrors is.
C14_FailuresPropagate ==
  \A t \in Tasks :
    (tasks[t].pc = "done" /\ tasks[t].fault) => ~tasks[t].ok

\* C20 (directory fixed at configuration time): whatever the engine was
\* constructed and initialised with, and wherever the process has changed its
\* working directory to since, the file a call that runs alone reads, writes or
\* deletes for its key is in the directory resolved when it was configured.
C20_DirectoryFixed ==
  \A t \in Tasks :
    LET tk == tasks[t] IN
    (tk.op \in {"setItem", "getItem", "removeItem"}
       /\ tk.pc \in {"read", "write", "unlink"} /\ Solo(tk))
    => fsPath(getDatumPath(tk.key)) = configured \o <<md5(tk.key)>>

\* C21 (expiry-triggered removal deletes only expired records): whatever a
\* setItem or updateItem on the same key does in between, the delete made by
\* getItem's lazy removal or by a sweep never removes a record that is
\* unexpired at the moment of the delete.
C21_OnlyExpiredRemoved ==
  [][\A t \in Tasks :
       LET tk == tasks[t]
           k == DeleteKey(tk)
           f == md5(k)
       IN (tk.op \in {"getItem", "removeExpiredItems"} /\ tk.pc = "unlink"
             /\ tasks'[t] # tk /\ IsRecord(files[f], k) /\ files'[f] = NoFile)
          => TtlPassed(files[f], now)]_vars

\* C22 (written files are valid records): with the engine alone on its
\* directory, every file there other than a hidden one holds a record the
\* engine reads back as valid and whose key hashes to the name of the file, for
\* every key setItem accepts, the empty string included.
C22_WrittenFilesValid ==
  \A f \in FileNames :
    (~hidden(f) /\ files[f] # NoFile)
    => /\ isValidStorageFileContent(parse(files[f]))
       /\ md5(parse(files[f]).key) = f

\* C23 (no phantom record): on a directory of valid records, whatever removal
\* (removeItem, lazy expiry, a sweep) deletes a listed file before the
\* enumeration reads it, keys() (length(), values()) and clear() complete
\* without error and the data they enumerated has no entry without a key.
C23_NoPhantom ==
  \A t \in Tasks :
    LET tk == tasks[t] IN
    (tk.pc = "done" /\ tk.op \in {"keys", "clear"})
    => /\ tk.ok
       /\ \A i \in 1..Len(tk.data) : tk.data[i].key # UndefKey

\* C24 (single-file blast radius): a step of setItem, updateItem, getItem or
\* removeItem on key k leaves the file of every other key, and the hidden file,
\* as it was, whatever calls on other keys run in between.
C24_SingleFile ==
  [][\A t \in Tasks :
       LET tk == tasks[t] IN
       (tk.op \in {"setItem", "updateItem", "getItem", "removeItem"}
          /\ tk.pc \in {"read", "write", "unlink"} /\ tasks'[t] # tk)
       => \A f \in FileNames : f # md5(tk.key) => files'[f] = files[f]]_vars

C24_Witness ==
  \E t \in Tasks, u \in Tasks :
    /\ Settles(t, "removeItem") /\ tasks[t].ok /\ tasks[t].key = "b"
    /\ tasks[u].op = "setItem" /\ tasks[u].key = "a" /\ tasks[u].pc = "write"
    /\ tasks[t].pre[md5("b")] # NoFile /\ files[md5("b")] = NoFile
    /\ files[md5("a")] = tasks[t].pre[md5("a")] /\ files[md5("a")] # NoFile

====
